---------------------------- MODULE Spec2Model ----------------------------
(***************************************************************************)
(* FSharedMemoryImageTransport (Unreal/Plugins/AirSim/Source/              *)
(* SharedMemoryImageTransport.{h,cpp}): a ring of fixed-size image slots   *)
(* in POSIX shared memory, handed from writer threads to a consumer        *)
(* process through two named counting semaphores.                          *)
(*                                                                         *)
(* The state is the C++ object's fields (obj), the operating-system        *)
(* resources behind its handles (os, the two semaphore counts), the        *)
(* mapped segment (hdr, slotMem, kept byte by byte), every writer thread's *)
(* position inside WriteImage with its locals, and the consumer's position *)
(* in its wait/read/post cycle.  The remaining variables are observers     *)
(* that only record what happened.                                         *)
(***************************************************************************)
EXTENDS Integers, Sequences, FiniteSets, TLC

\* ------------------------------------------------------------------ bounds

\* writer threads calling WriteImage concurrently
NumWriters == 2
\* Initialize is called with NumSlots in 0..MaxNumSlots
MaxNumSlots == 2
\* WriteImage is called with Width in 0..MaxDim (Height in 0..1)
MaxDim == 1
\* the observers' counters stop counting at this value
CountCap == 4
\* WriteImages is called with up to this many images
MaxBatch == 3
\* the packing task is constructed with up to this many entries
MaxTask == 3

\* ------------------------------------------------------- program constants

\* FSharedImageSlot::HeaderSize = 4 + 4 + 8 + 4 + 4
SlotHeaderSize == 24
\* the header page, and the alignment of a slot
PageSize == 4096
\* FSharedMemoryHeader::MAGIC_NUMBER = 0x41495253
MAGIC_NUMBER == 1095324243
\* the descriptor shm_open returns (any value >= 0)
ShmFd == 3

MAP_FAILED == "MAP_FAILED"
MAPPED == "mapped"
SEM_FAILED == "SEM_FAILED"
nullptr == "nullptr"

Writers == 1..NumWriters

Min(a, b) == IF a < b THEN a ELSE b
Max(a, b) == IF a > b THEN a ELSE b
\* an observer's counter, one more, stopping at CountCap
Bump(n) == Min(n + 1, CountCap)

\* ------------------------------------------------------------ slot geometry

\* (x + 4095) & ~4095
AlignToPage(x) == ((x + (PageSize - 1)) \div PageSize) * PageSize

\* SingleSlotSize as Initialize computes it
SlotSizeFor(MaxWidth, MaxHeight) ==
    AlignToPage(SlotHeaderSize + (MaxWidth * MaxHeight * 3))

\* TotalSize as Initialize computes it: the header padded to one page, then the slots
TotalSizeFor(NumSlots, slotSize) == PageSize + (slotSize * NumSlots)

\* uint32 RequiredSize = Width * Height * 3
RequiredSizeOf(img) == img.Width * img.Height * 3

\* the early returns of WriteImage on its arguments
ValidImage(img) ==
    /\ ~(img.Width = 0 \/ img.Height = 0)
    /\ ~(Len(img.PixelData) < RequiredSizeOf(img))

\* mutant of NextIndexOf: the index is advanced without the wrap-around
NextIndexOf_NoWrap(CurrentIndex, MaxSlots) == CurrentIndex + 1

\* (CurrentIndex + 1) % MaxSlots; with MaxSlots = 0 the division is undefined:
\* it traps (LoadWriteIndex) or, where it yields 0, leaves CurrentIndex + 1
NextIndexOf(CurrentIndex, MaxSlots) ==
    IF MaxSlots = 0 THEN CurrentIndex + 1 ELSE (CurrentIndex + 1) % MaxSlots

\* mutant of CompareMatches: a plain store in place of the compare-and-swap
CompareMatches_Always(found, expected) == TRUE

\* InterlockedCompareExchange(&WriteIndex, NextIndex, CurrentIndex) != CurrentIndex
\* ends the loop when the value it found is the value that was loaded
CompareMatches(found, expected) == found = expected

\* mutant of PermitTaken: the result of sem_timedwait is not looked at
PermitTaken_Unchecked(count) == TRUE

\* sem_timedwait(WriteSemaphore, &ts) < 0 is false: a permit was there to take
PermitTaken(count) == count > 0

\* mutant of TimedOut: sem_wait in place of sem_timedwait
TimedOut_Never(count) == FALSE

\* sem_timedwait(WriteSemaphore, &ts) < 0 is true: no permit came before the deadline
TimedOut(count) == count = 0

\* mutant of GetSlotIsNull: the bound is off by one
GetSlotIsNull_OffByOne(Index, MaxSlots) == Index + 1 >= MaxSlots

\* GetSlot returns nullptr for an index that is not below MaxSlots
GetSlotIsNull(Index, MaxSlots) == Index >= MaxSlots

\* mutant of InitialWritePermits: one permit more than there are slots
InitialWritePermits_OneMore(NumSlots) == NumSlots + 1

\* sem_open's initial values
InitialWritePermits(NumSlots) == NumSlots
InitialReadReady == 0

\* --------------------------------------------------------- bytes of a slot

\* a 32-bit and a 64-bit field as the bytes a little-endian store leaves
LE32(v) == << v % 256, (v \div 256) % 256, (v \div 65536) % 256, (v \div 16777216) % 256 >>
LE64(v) == LE32(v) \o << 0, 0, 0, 0 >>

\* Width, Height, Timestamp, ImageType, DataSize as laid out in FSharedImageSlot
EncodeSubHeader(img) ==
    LE32(img.Width) \o LE32(img.Height) \o LE64(img.Timestamp)
        \o LE32(img.ImageType) \o LE32(RequiredSizeOf(img))

\* the first RequiredSize bytes of the caller's buffer
CopiedBytes(img) == SubSeq(img.PixelData, 1, RequiredSizeOf(img))

\* a slot's memory is kept up to the last byte ever stored; the rest is zero
ByteAt(mem, i) == IF i <= Len(mem) THEN mem[i] ELSE 0

\* mem with bytes stored from byte offset off (0-based) on
Store(mem, off, bytes) ==
    [ i \in 1..Max(Len(mem), off + Len(bytes)) |->
        IF i > off /\ i <= off + Len(bytes) THEN bytes[i - off] ELSE ByteAt(mem, i) ]

\* the bytes of mem from offset off on, n of them
Load(mem, off, n) == [ i \in 1..n |-> ByteAt(mem, off + i) ]

\* the slots' memory after a store of bytes at offset off of slot Index; a store
\* that runs past the end of its slot continues in the slots that follow
StoreInSlots(mem, Index, off, bytes, slotSize) ==
    LET p == (Index * slotSize) + off
    IN  [ j \in DOMAIN mem |->
            LET lo    == j * slotSize
                first == Max(p, lo)
                last  == Min(p + Len(bytes), lo + slotSize)
            IN  IF first < last
                THEN Store(mem[j], first - lo, SubSeq(bytes, (first - p) + 1, last - p))
                ELSE mem[j] ]

\* whether a store of n bytes at offset off of slot Index ends past the mapping
PastSegment(Index, off, n, slotSize, MaxSlots) ==
    (Index * slotSize) + off + n > MaxSlots * slotSize

\* ------------------------------------------------------------------- inputs

Widths == 0..MaxDim
Heights == 0..1
\* a frame: its timestamp, its image type and the caller's pixel buffer
Frames ==
    { [ Timestamp |-> 1000, ImageType |-> 0, PixelData |-> << 255, 255, 255 >> ],
      [ Timestamp |-> 2000, ImageType |-> 5, PixelData |-> << 1, 2, 3, 4, 5, 6, 7 >> ] }

\* the arguments of one WriteImage call
ImageOf(wd, ht, fr) ==
    [ Width |-> wd, Height |-> ht, Timestamp |-> fr.Timestamp,
      ImageType |-> fr.ImageType, PixelData |-> fr.PixelData ]

Images == { ImageOf(wd, ht, fr) : wd \in Widths, ht \in Heights, fr \in Frames }

NoImage ==
    [ Width |-> 0, Height |-> 0, Timestamp |-> 0, ImageType |-> 0, PixelData |-> << >> ]

\* where Initialize can fail
FailPoints == { "none", "shm_open", "ftruncate", "mmap", "sem_write", "sem_read", "sem_both" }

\* ---------------------------------------------------------------- variables

VARIABLES
    obj,            \* the fields of FSharedMemoryImageTransport
    os,             \* the resources behind the handles: open, mapped, linked
    faults,         \* releases issued on something not held (a second close, unmap, unlink)
    writePermits,   \* the count of /airsim_write_<pid>
    readReady,      \* the count of /airsim_read_<pid>
    hdr,            \* FSharedMemoryHeader in the mapped segment
    slotMem,        \* slot index -> the bytes of that slot
    pc,             \* writer -> its position in WriteImage
    call,           \* writer -> the arguments of its call
    CurrentIndex,   \* writer -> GetNextWriteIndex's local
    SlotIndex,      \* writer -> WriteImage's local
    ret,            \* writer -> what its last call returned: "true", or why false
    crashed,        \* the process died on a store outside the mapping
    cpc,            \* the consumer's position
    readIndex,      \* the slot the consumer reads next
    initResult,     \* what the last Initialize returned: "true" or "false"
    reinitialized,  \* observer: the last Initialize found the transport initialized
    refusedSince,   \* observer: a call was refused as not initialized since the
                    \* last Shutdown or failed Initialize
    claimCount,     \* observer: slot claims since Initialize
    lastClaimed,    \* observer: the index the latest claim returned
    lastClaimTime,  \* observer: the Timestamp argument of the call that claimed a slot last
    accepted,       \* observer: calls that returned true since Initialize
    posted,         \* observer: the consumer posted a write permit since Initialize
    unread,         \* observer: slot -> a read-ready post for it is not yet consumed
    touched,        \* observer: writer -> its call changed the segment or a semaphore
    casLost,        \* observer: writer -> another writer's claim succeeded since its load
    lastAccepted,   \* observer: the latest accepted write, until its slot is claimed again
    bpc,            \* writer -> its position in WriteImages
    Batch,          \* writer -> the Images argument of its WriteImages call
    batchIdx,       \* writer -> the element the range-for loop is at (1-based)
    bAllSuccess,    \* writer -> WriteImages' local
    batchRet,       \* writer -> what its last WriteImages call returned
    results,        \* observer: writer -> per element, the WriteImage arguments and return
    task,           \* FImagePackingAsyncTask: its batch, DoWork's position and outcome
    geom,           \* the 32-bit size arithmetic of Initialize and GetSlot: inputs, results
    spc             \* the position of a Shutdown that runs beside the writers

objVars == << obj, os, faults, initResult, reinitialized, refusedSince >>
shmVars == << hdr, slotMem >>
semVars == << writePermits, readReady >>
writerVars == << pc, call, CurrentIndex, SlotIndex, ret >>
consumerVars == << cpc, readIndex >>
observerVars == << claimCount, lastClaimed, lastClaimTime, accepted, posted, unread, touched, casLost, lastAccepted >>
batchVars == << bpc, Batch, batchIdx, bAllSuccess, batchRet, results >>
\* everything of the transport and its callers
transportVars == << objVars, shmVars, semVars, writerVars, consumerVars, observerVars,
                    crashed, batchVars >>
\* what the steps of the transport's calls leave alone
restVars == << task, geom, spc >>
vars == << transportVars, restVars >>

\* ------------------------------------------------------------- construction

\* the constructor's member initialisers
ConstructedObj ==
    [ SharedMemoryFD |-> -1, SharedMemoryPtr |-> MAP_FAILED, TotalSize |-> 0,
      Header |-> nullptr, SlotDataStart |-> nullptr,
      WriteSemaphore |-> SEM_FAILED, ReadSemaphore |-> SEM_FAILED,
      bIsInitialized |-> FALSE, MaxSlots |-> 0, SingleSlotSize |-> 0 ]

\* nothing created yet
NoResources ==
    [ fdOpen |-> FALSE, shmLinked |-> FALSE, mapped |-> FALSE,
      writeSemOpen |-> FALSE, writeSemLinked |-> FALSE,
      readSemOpen |-> FALSE, readSemLinked |-> FALSE ]

\* no segment mapped
NoHeader ==
    [ MagicNumber |-> 0, NumSlots |-> 0, SlotSize |-> 0, WriteIndex |-> 0, LastUpdateTime |-> 0 ]

NoSlots == [ j \in {} |-> << >> ]

NoAccepted == [ Slot |-> -1, Image |-> NoImage ]

\* no packing task, no size computed, no Shutdown in progress
NoTask == [ Entries |-> << >>, i |-> 1, crashed |-> FALSE ]
NoGeometry ==
    [ NumSlots |-> 0, MaxWidth |-> 0, MaxHeight |-> 0, done |-> FALSE,
      SingleSlotSize |-> << >>, TotalSize |-> << >>, Index |-> -1, Offset |-> << >> ]

InitTransport ==
    /\ obj = ConstructedObj
    /\ os = NoResources
    /\ faults = {}
    /\ writePermits = 0
    /\ readReady = 0
    /\ hdr = NoHeader
    /\ slotMem = NoSlots
    /\ pc = [ w \in Writers |-> "idle" ]
    /\ call = [ w \in Writers |-> NoImage ]
    /\ CurrentIndex = [ w \in Writers |-> 0 ]
    /\ SlotIndex = [ w \in Writers |-> 0 ]
    /\ ret = [ w \in Writers |-> "none" ]
    /\ crashed = FALSE
    /\ cpc = "idle"
    /\ readIndex = 0
    /\ initResult = "none"
    /\ reinitialized = FALSE
    /\ refusedSince = FALSE
    /\ claimCount = 0
    /\ lastClaimed = -1
    /\ lastClaimTime = 0
    /\ accepted = 0
    /\ posted = FALSE
    /\ unread = NoSlots
    /\ touched = [ w \in Writers |-> FALSE ]
    /\ casLost = [ w \in Writers |-> FALSE ]
    /\ lastAccepted = NoAccepted
    /\ bpc = [ w \in Writers |-> "idle" ]
    /\ Batch = [ w \in Writers |-> << >> ]
    /\ batchIdx = [ w \in Writers |-> 1 ]
    /\ bAllSuccess = [ w \in Writers |-> TRUE ]
    /\ batchRet = [ w \in Writers |-> "none" ]
    /\ results = [ w \in Writers |-> << >> ]

Init ==
    /\ InitTransport
    /\ task = NoTask
    /\ geom = NoGeometry
    /\ spc = "idle"

\* ---------------------------------------------------------------- lifecycle

\* the dimensions Initialize is called with
MaxWidths == {MaxDim}
MaxHeights == {1}

\* One release call on the resources r = [os, faults]: the resource goes away
\* when it is held, and the call is recorded as a fault when it is not.
Release(r, what) ==
    IF r.os[what]
    THEN [ r EXCEPT !.os[what] = FALSE ]
    ELSE [ r EXCEPT !.faults = @ \cup {what} ]

\* UnmapSharedMemory on the object o and the resources r
UnmapSharedMemory(o, r) ==
    IF o.SharedMemoryPtr # MAP_FAILED /\ o.TotalSize > 0
    THEN [ o |-> [ o EXCEPT !.SharedMemoryPtr = MAP_FAILED ], r |-> Release(r, "mapped") ]
    ELSE [ o |-> o, r |-> r ]

\* Shutdown on the object o and the resources r: what both are afterwards
ShutdownEffect(o, r) ==
    LET o1 == IF o.WriteSemaphore # SEM_FAILED
              THEN [ o EXCEPT !.WriteSemaphore = SEM_FAILED ] ELSE o
        r1 == IF o.WriteSemaphore # SEM_FAILED
              THEN Release(Release(r, "writeSemOpen"), "writeSemLinked") ELSE r
        o2 == IF o1.ReadSemaphore # SEM_FAILED
              THEN [ o1 EXCEPT !.ReadSemaphore = SEM_FAILED ] ELSE o1
        r2 == IF o1.ReadSemaphore # SEM_FAILED
              THEN Release(Release(r1, "readSemOpen"), "readSemLinked") ELSE r1
        u  == UnmapSharedMemory(o2, r2)
        o3 == IF u.o.SharedMemoryFD >= 0
              THEN [ u.o EXCEPT !.SharedMemoryFD = -1 ] ELSE u.o
        r3 == IF u.o.SharedMemoryFD >= 0
              THEN Release(Release(u.r, "fdOpen"), "shmLinked") ELSE u.r
    IN  [ o |-> [ o3 EXCEPT !.bIsInitialized = FALSE ], r |-> r3 ]

\* Initialize's object and resources when it stops at the failing step, fail
\* (o already holds MaxSlots, SingleSlotSize and TotalSize)
InitializeEffect(o, r, fail) ==
    LET opened == [ r EXCEPT !.os.fdOpen = TRUE, !.os.shmLinked = TRUE ]
        \* close(SharedMemoryFD); shm_unlink(name); return false
        undone == Release(Release(opened, "fdOpen"), "shmLinked")
        oFd    == [ o EXCEPT !.SharedMemoryFD = ShmFd ]
        oMap   == [ oFd EXCEPT !.SharedMemoryPtr = MAPPED, !.Header = "header",
                                !.SlotDataStart = "slots" ]
        rMap   == [ opened EXCEPT !.os.mapped = TRUE ]
        wOk    == fail \notin { "sem_write", "sem_both" }
        rOk    == fail \notin { "sem_read", "sem_both" }
        oSem   == [ oMap EXCEPT !.WriteSemaphore = IF wOk THEN "write_sem" ELSE SEM_FAILED,
                                !.ReadSemaphore = IF rOk THEN "read_sem" ELSE SEM_FAILED ]
        rSem   == [ rMap EXCEPT !.os.writeSemOpen = wOk, !.os.writeSemLinked = wOk,
                                !.os.readSemOpen = rOk, !.os.readSemLinked = rOk ]
    IN  CASE fail = "shm_open"  -> [ o |-> [ o EXCEPT !.SharedMemoryFD = -1 ], r |-> r ]
          [] fail = "ftruncate" -> [ o |-> oFd, r |-> undone ]
          [] fail = "mmap"      -> [ o |-> [ oFd EXCEPT !.SharedMemoryPtr = MAP_FAILED ],
                                     r |-> undone ]
          [] fail = "none"      -> [ o |-> [ oSem EXCEPT !.bIsInitialized = TRUE ], r |-> rSem ]
          [] OTHER              -> ShutdownEffect(oSem, rSem)

ResetObservers ==
    /\ claimCount' = 0
    /\ lastClaimed' = -1
    /\ lastClaimTime' = 0
    /\ accepted' = 0
    /\ posted' = FALSE
    /\ lastAccepted' = NoAccepted

\* mutant of AlreadyInitialized: the guard at the top of Initialize is missing
AlreadyInitialized_Never(o) == FALSE

\* if (bIsInitialized) return true;
AlreadyInitialized(o) == o.bIsInitialized

\* Initialize(NumSlots, MaxWidth, MaxHeight), failing at step fail
Initialize(NumSlots, MaxWidth, MaxHeight, fail) ==
    /\ ~crashed
    /\ IF AlreadyInitialized(obj)
       THEN /\ initResult' = "true"
            /\ reinitialized' = TRUE
            /\ UNCHANGED << obj, os, faults, refusedSince, shmVars, semVars,
                            consumerVars, observerVars >>
       ELSE LET o == [ obj EXCEPT
                         !.MaxSlots = NumSlots,
                         !.SingleSlotSize = SlotSizeFor(MaxWidth, MaxHeight),
                         !.TotalSize = TotalSizeFor(NumSlots, SlotSizeFor(MaxWidth, MaxHeight)) ]
                e == InitializeEffect(o, [ os |-> os, faults |-> faults ], fail)
            IN  /\ obj' = e.o
                /\ os' = e.r.os
                /\ faults' = e.r.faults
                /\ initResult' = IF fail = "none" THEN "true" ELSE "false"
                /\ reinitialized' = FALSE
                /\ refusedSince' = FALSE
                /\ IF fail = "none"
                   THEN /\ hdr' = [ MagicNumber |-> MAGIC_NUMBER, NumSlots |-> o.MaxSlots,
                                    SlotSize |-> o.SingleSlotSize, WriteIndex |-> 0,
                                    LastUpdateTime |-> 0 ]
                        /\ slotMem' = [ j \in 0..(NumSlots - 1) |-> << >> ]
                        /\ writePermits' = InitialWritePermits(o.MaxSlots)
                        /\ readReady' = InitialReadReady
                        /\ unread' = [ j \in 0..(NumSlots - 1) |-> FALSE ]
                   ELSE /\ UNCHANGED << shmVars, semVars, unread >>
                /\ ResetObservers
                /\ UNCHANGED << touched, casLost >>
                /\ cpc' = "idle"
                /\ readIndex' = 0
    /\ UNCHANGED << writerVars, crashed >>
    /\ UNCHANGED batchVars
    /\ UNCHANGED restVars

\* Shutdown(), called while no WriteImage call and no read is in progress
Shutdown ==
    /\ ~crashed
    /\ \A w \in Writers : pc[w] = "idle" /\ bpc[w] = "idle"
    /\ cpc = "idle"
    /\ spc = "idle"
    /\ LET e == ShutdownEffect(obj, [ os |-> os, faults |-> faults ])
       IN  /\ obj' = e.o
           /\ os' = e.r.os
           /\ faults' = e.r.faults
    /\ hdr' = NoHeader
    /\ slotMem' = NoSlots
    /\ writePermits' = 0
    /\ readReady' = 0
    /\ unread' = NoSlots
    /\ ResetObservers
    /\ readIndex' = 0
    /\ reinitialized' = FALSE
    /\ refusedSince' = FALSE
    /\ UNCHANGED << initResult, writerVars, cpc, touched, casLost, crashed >>
    /\ UNCHANGED batchVars
    /\ UNCHANGED restVars

\* --------------------------------------------------------------- WriteImage

\* the writers between GetNextWriteIndex returning and sem_post(ReadSemaphore)
InSlot == { "header", "copy", "stamp", "post" }
\* the writers between sem_timedwait succeeding and sem_post(ReadSemaphore)
WithPermit == { "load", "cas" } \cup InSlot

\* observer: whether this step of writer w changed the segment or a semaphore;
\* fresh says that the step begins a call
Touch(w, fresh) ==
    touched' = [ touched EXCEPT ![w] =
                    \/ (~fresh /\ @)
                    \/ hdr' # hdr
                    \/ slotMem' # slotMem
                    \/ writePermits' # writePermits
                    \/ readReady' # readReady ]

\* what a call returns when it returns false
Refusals == { "not_initialized", "invalid", "timeout", "no_slot" }

\* the call of writer w returns r
Return(w, r) ==
    /\ pc' = [ pc EXCEPT ![w] = "idle" ]
    /\ ret' = [ ret EXCEPT ![w] = r ]
    /\ call' = [ call EXCEPT ![w] = NoImage ]
    /\ CurrentIndex' = [ CurrentIndex EXCEPT ![w] = 0 ]
    /\ SlotIndex' = [ SlotIndex EXCEPT ![w] = 0 ]

\* mutant of NotInitialized: only the Header pointer is looked at
NotInitialized_HeaderOnly(o) == o.Header = nullptr

\* if (!bIsInitialized || !Header) return false;
NotInitialized(o) == ~o.bIsInitialized \/ o.Header = nullptr

\* WriteImage is entered: the initialized check and the argument checks
WriteImageEnter(w, img) ==
    /\ ~crashed
    /\ pc[w] = "idle"
    /\ IF NotInitialized(obj)
       THEN /\ Return(w, "not_initialized")
            /\ refusedSince' = TRUE
       ELSE IF ~ValidImage(img)
       THEN /\ Return(w, "invalid")
            /\ UNCHANGED refusedSince
       ELSE /\ pc' = [ pc EXCEPT ![w] = "wait" ]
            /\ call' = [ call EXCEPT ![w] = img ]
            /\ ret' = [ ret EXCEPT ![w] = "none" ]
            /\ UNCHANGED << CurrentIndex, SlotIndex, refusedSince >>
    /\ casLost' = [ casLost EXCEPT ![w] = FALSE ]
    /\ UNCHANGED << obj, os, faults, initResult, reinitialized, shmVars, semVars, consumerVars, crashed,
                    claimCount, lastClaimed, lastClaimTime, accepted, posted, unread, lastAccepted >>
    /\ Touch(w, TRUE)
    /\ UNCHANGED restVars

\* WriteImage called by a thread of its own (not from inside WriteImages)
WriteImage(w, img) ==
    /\ bpc[w] = "idle"
    /\ WriteImageEnter(w, img)
    /\ UNCHANGED batchVars

\* sem_timedwait(WriteSemaphore) takes a permit
AcquirePermit(w) ==
    /\ ~crashed
    /\ pc[w] = "wait"
    /\ PermitTaken(writePermits)
    /\ writePermits' = writePermits - 1
    /\ pc' = [ pc EXCEPT ![w] = "load" ]
    /\ UNCHANGED << objVars, shmVars, readReady, call, CurrentIndex, SlotIndex, ret,
                    consumerVars, crashed, claimCount, lastClaimed, lastClaimTime, accepted, posted,
                    unread, casLost, lastAccepted >>
    /\ Touch(w, FALSE)
    /\ UNCHANGED batchVars
    /\ UNCHANGED restVars

\* sem_timedwait(WriteSemaphore) runs into its 5 ms deadline: the frame is dropped
PermitTimeout(w) ==
    /\ ~crashed
    /\ pc[w] = "wait"
    /\ TimedOut(writePermits)
    /\ Return(w, "timeout")
    /\ UNCHANGED << objVars, shmVars, semVars, consumerVars, crashed, claimCount,
                    lastClaimed, lastClaimTime, accepted, posted, unread, casLost, lastAccepted >>
    /\ Touch(w, FALSE)
    /\ UNCHANGED batchVars
    /\ UNCHANGED restVars

\* GetNextWriteIndex: CurrentIndex = Header->WriteIndex
LoadWriteIndex(w) ==
    /\ ~crashed
    /\ pc[w] = "load"
    /\ CurrentIndex' = [ CurrentIndex EXCEPT ![w] = hdr.WriteIndex ]
    /\ pc' = [ pc EXCEPT ![w] = "cas" ]
    /\ casLost' = [ casLost EXCEPT ![w] = FALSE ]
    /\ IF obj.MaxSlots = 0 THEN crashed' \in BOOLEAN ELSE crashed' = crashed
    /\ UNCHANGED << objVars, shmVars, semVars, call, SlotIndex, ret, consumerVars,
                    claimCount, lastClaimed, lastClaimTime, accepted, posted, unread, lastAccepted >>
    /\ Touch(w, FALSE)
    /\ UNCHANGED batchVars
    /\ UNCHANGED restVars

\* GetNextWriteIndex: the compare-and-swap, then GetSlot on the index it returned
CompareExchange(w) ==
    /\ ~crashed
    /\ pc[w] = "cas"
    /\ IF CompareMatches(hdr.WriteIndex, CurrentIndex[w])
       THEN /\ hdr' = [ hdr EXCEPT !.WriteIndex = NextIndexOf(CurrentIndex[w], obj.MaxSlots) ]
            /\ claimCount' = Bump(claimCount)
            /\ lastClaimed' = CurrentIndex[w]
            /\ casLost' = [ v \in Writers |-> casLost[v] \/ (v # w /\ pc[v] = "cas") ]
            /\ lastAccepted' = IF lastAccepted.Slot = CurrentIndex[w]
                               THEN NoAccepted ELSE lastAccepted
            /\ IF GetSlotIsNull(CurrentIndex[w], obj.MaxSlots)
               THEN /\ writePermits' = writePermits + 1
                    /\ Return(w, "no_slot")
                    /\ UNCHANGED lastClaimTime
               ELSE /\ SlotIndex' = [ SlotIndex EXCEPT ![w] = CurrentIndex[w] ]
                    /\ lastClaimTime' = call[w].Timestamp
                    /\ pc' = [ pc EXCEPT ![w] = "header" ]
                    /\ UNCHANGED << writePermits, call, CurrentIndex, ret >>
       ELSE /\ pc' = [ pc EXCEPT ![w] = "load" ]
            /\ UNCHANGED << hdr, writePermits, call, CurrentIndex, SlotIndex, ret,
                            claimCount, lastClaimed, lastClaimTime, casLost, lastAccepted >>
    /\ UNCHANGED << objVars, slotMem, readReady, consumerVars, crashed, accepted,
                    posted, unread >>
    /\ Touch(w, FALSE)
    /\ UNCHANGED batchVars
    /\ UNCHANGED restVars

\* Slot->Width .. Slot->DataSize
WriteSubHeader(w) ==
    /\ ~crashed
    /\ pc[w] = "header"
    /\ slotMem' = StoreInSlots(slotMem, SlotIndex[w], 0, EncodeSubHeader(call[w]),
                               obj.SingleSlotSize)
    /\ pc' = [ pc EXCEPT ![w] = "copy" ]
    /\ UNCHANGED << objVars, hdr, semVars, call, CurrentIndex, SlotIndex, ret,
                    consumerVars, crashed, claimCount, lastClaimed, lastClaimTime, accepted, posted,
                    unread, casLost, lastAccepted >>
    /\ Touch(w, FALSE)
    /\ UNCHANGED batchVars
    /\ UNCHANGED restVars

\* FMemory::Memcpy(Slot->PixelData, PixelData.GetData(), RequiredSize); bytes past
\* the mapping either kill the process or land outside what is modelled
CopyPixels(w) ==
    /\ ~crashed
    /\ pc[w] = "copy"
    /\ slotMem' = StoreInSlots(slotMem, SlotIndex[w], SlotHeaderSize, CopiedBytes(call[w]),
                               obj.SingleSlotSize)
    /\ IF PastSegment(SlotIndex[w], SlotHeaderSize, RequiredSizeOf(call[w]),
                      obj.SingleSlotSize, obj.MaxSlots)
       THEN crashed' \in BOOLEAN
       ELSE crashed' = crashed
    /\ pc' = [ pc EXCEPT ![w] = "stamp" ]
    /\ UNCHANGED << objVars, hdr, semVars, call, CurrentIndex, SlotIndex, ret,
                    consumerVars, claimCount, lastClaimed, lastClaimTime, accepted, posted, unread,
                    casLost, lastAccepted >>
    /\ Touch(w, FALSE)
    /\ UNCHANGED batchVars
    /\ UNCHANGED restVars

\* Header->LastUpdateTime = Timestamp
StoreLastUpdateTime(w) ==
    /\ ~crashed
    /\ pc[w] = "stamp"
    /\ hdr' = [ hdr EXCEPT !.LastUpdateTime = call[w].Timestamp ]
    /\ pc' = [ pc EXCEPT ![w] = "post" ]
    /\ UNCHANGED << objVars, slotMem, semVars, call, CurrentIndex, SlotIndex, ret,
                    consumerVars, crashed, claimCount, lastClaimed, lastClaimTime, accepted, posted,
                    unread, casLost, lastAccepted >>
    /\ Touch(w, FALSE)
    /\ UNCHANGED batchVars
    /\ UNCHANGED restVars

\* sem_post(ReadSemaphore); return true
PostReadReady(w) ==
    /\ ~crashed
    /\ pc[w] = "post"
    /\ readReady' = readReady + 1
    /\ accepted' = Bump(accepted)
    /\ unread' = [ unread EXCEPT ![SlotIndex[w]] = TRUE ]
    /\ lastAccepted' = [ Slot |-> SlotIndex[w], Image |-> call[w] ]
    /\ Return(w, "true")
    /\ UNCHANGED << objVars, shmVars, writePermits, consumerVars, crashed, claimCount,
                    lastClaimed, lastClaimTime, posted, casLost >>
    /\ Touch(w, FALSE)
    /\ UNCHANGED batchVars
    /\ UNCHANGED restVars

\* ----------------------------------------------------------------- consumer

\* the consumer process: sem_wait on the read-ready semaphore
ConsumerWait ==
    /\ ~crashed
    /\ cpc = "idle"
    /\ readReady > 0
    /\ readReady' = readReady - 1
    /\ cpc' = "reading"
    /\ UNCHANGED << objVars, shmVars, writePermits, writerVars, readIndex, crashed,
                    observerVars >>
    /\ UNCHANGED batchVars
    /\ UNCHANGED restVars

\* the consumer has read slot readIndex: sem_post on the write-permit semaphore
ConsumerPost ==
    /\ ~crashed
    /\ cpc = "reading"
    /\ writePermits' = writePermits + 1
    /\ readIndex' = (readIndex + 1) % hdr.NumSlots
    /\ cpc' = "idle"
    /\ posted' = TRUE
    /\ unread' = [ unread EXCEPT ![readIndex] = FALSE ]
    /\ UNCHANGED << objVars, shmVars, readReady, writerVars, crashed, claimCount,
                    lastClaimed, lastClaimTime, accepted, touched, casLost, lastAccepted >>
    /\ UNCHANGED batchVars
    /\ UNCHANGED restVars

\* ------------------------------------------------------------ specification

\* Initialize called on a transport that is not initialized, and succeeding; a
\* call on an initialized one changes nothing of the program's state and is
\* left to NextLifecycle
FirstInitialize(NumSlots, MaxWidth, MaxHeight) ==
    /\ ~obj.bIsInitialized
    /\ Initialize(NumSlots, MaxWidth, MaxHeight, "none")

Next ==
    \/ \E n \in 0..MaxNumSlots, mw \in MaxWidths, mh \in MaxHeights :
          FirstInitialize(n, mw, mh)
    \/ Shutdown
    \/ \E w \in Writers, img \in Images : WriteImage(w, img)
    \/ \E w \in Writers : AcquirePermit(w)
    \/ \E w \in Writers : PermitTimeout(w)
    \/ \E w \in Writers : LoadWriteIndex(w)
    \/ \E w \in Writers : CompareExchange(w)
    \/ \E w \in Writers : WriteSubHeader(w)
    \/ \E w \in Writers : CopyPixels(w)
    \/ \E w \in Writers : StoreLastUpdateTime(w)
    \/ \E w \in Writers : PostReadReady(w)
    \/ ConsumerWait
    \/ ConsumerPost

Spec == Init /\ [][Next]_vars

\* ------------------------------------------------------------------- claims

\* the writers that hold slot i: past their claim, before their read-ready post
Holders(i) == { w \in Writers : pc[w] \in InSlot /\ SlotIndex[w] = i }

\* the permits that are neither in the write-permit nor in the read-ready semaphore
PermitsInFlight ==
    Cardinality({ w \in Writers : pc[w] \in WithPermit })
        + (IF cpc = "reading" THEN 1 ELSE 0)

\* C1: no two WriteImage calls are at the same time between their slot claim
\* and their read-ready post with the same slot index.
C1_NoSharedSlot ==
    \A i \in DOMAIN slotMem : Cardinality(Holders(i)) <= 1

\* C2: counted from a fresh Initialize, the k-th successful compare-and-swap
\* returns index (k - 1) mod MaxSlots, and WriteIndex is then k mod MaxSlots,
\* whatever the interleaving of the writers.
C2_ClaimOrder ==
    (obj.bIsInitialized /\ claimCount >= 1 /\ claimCount < CountCap)
        => /\ lastClaimed = (claimCount - 1) % obj.MaxSlots
           /\ hdr.WriteIndex = claimCount % obj.MaxSlots

\* C2's case: the ring has wrapped (claim MaxSlots + 1 returned index 0) while
\* a writer that lost a compare-and-swap to another writer is still retrying
C2_Witness ==
    /\ obj.MaxSlots >= 2
    /\ claimCount = obj.MaxSlots + 1
    /\ claimCount < CountCap
    /\ lastClaimed = 0
    /\ \E w \in Writers : pc[w] = "cas" /\ casLost[w]

\* C3: while the consumer has posted no write permit, at most MaxSlots calls
\* have returned true, and once MaxSlots have, no permit is left or held, so
\* every further call can only return false.
C3_BackpressureBound ==
    (obj.bIsInitialized /\ ~posted)
        => /\ accepted <= obj.MaxSlots
           /\ (accepted = obj.MaxSlots
                 => /\ writePermits = 0
                    /\ \A w \in Writers : pc[w] \notin WithPermit)

\* C3's case: every slot was written, the consumer posted nothing, and a later
\* call ran into the timeout while another is waiting
C3_Witness ==
    /\ obj.bIsInitialized /\ ~posted
    /\ obj.MaxSlots >= 2
    /\ accepted = obj.MaxSlots
    /\ \E w, v \in Writers : ret[w] = "timeout" /\ pc[v] = "wait"

\* C4: whenever the round-robin consumer holds a read-ready permit, the slot at
\* its read index was completely written by a call that has posted read-ready,
\* and no writer is still writing into that slot.
C4_ReaderSeesCompleteSlot ==
    cpc = "reading" => (unread[readIndex] /\ Holders(readIndex) = {})

\* C6: write permits, permits held by writers, read-ready permits and the permit
\* held by the consumer add up to MaxSlots in every state of an initialized
\* transport.
C6_PermitConservation ==
    obj.bIsInitialized
        => writePermits + readReady + PermitsInFlight = obj.MaxSlots

\* C6's case: one permit is with a writer inside a slot, another with the consumer
C6_Witness ==
    /\ obj.bIsInitialized
    /\ cpc = "reading"
    /\ \E w \in Writers : pc[w] \in InSlot
    /\ accepted >= 2

\* C7: a call that has returned false changed neither the header, nor a slot,
\* nor a semaphore count.
C7_RefusalChangesNothing ==
    \A w \in Writers : ret[w] \in Refusals => ~touched[w]

\* C7's case: calls have been refused for the arguments and for the timeout
C7_Witness ==
    /\ obj.bIsInitialized
    /\ \E w, v \in Writers : ret[w] = "timeout" /\ ret[v] = "invalid"

\* the bytes a complete write of img leaves at the start of its slot
SlotImageBytes(img) == EncodeSubHeader(img) \o CopiedBytes(img)

\* C8: from the return of an accepted call until its slot is claimed again, the
\* slot holds the call's width, height, timestamp, image type, data size and
\* pixel bytes.
C8_AcceptedSlotHolds ==
    lastAccepted.Slot >= 0
        => Load(slotMem[lastAccepted.Slot], 0, Len(SlotImageBytes(lastAccepted.Image)))
              = SlotImageBytes(lastAccepted.Image)

\* ------------------------------------------- frames larger than a slot (C5)

\* the narrowest one-row frame whose pixel bytes do not fit the payload of a
\* one-page slot
OversizeWidth == ((PageSize - SlotHeaderSize) \div 3) + 1

OversizeImage ==
    [ Width |-> OversizeWidth, Height |-> 1, Timestamp |-> 3000, ImageType |-> 0,
      PixelData |-> [ i \in 1..(OversizeWidth * 3) |-> i % 256 ] ]

\* one writer thread is enough to see what a frame of that size does
OversizeWriters == {1}

\* the transport written with frames of the usual sizes and with the oversize one
NextOversize ==
    \/ \E n \in 1..MaxNumSlots, mw \in MaxWidths, mh \in MaxHeights :
          FirstInitialize(n, mw, mh)
    \/ \E w \in OversizeWriters, img \in Images \cup {OversizeImage} : WriteImage(w, img)
    \/ \E w \in OversizeWriters : AcquirePermit(w)
    \/ \E w \in OversizeWriters : PermitTimeout(w)
    \/ \E w \in OversizeWriters : LoadWriteIndex(w)
    \/ \E w \in OversizeWriters : CompareExchange(w)
    \/ \E w \in OversizeWriters : WriteSubHeader(w)
    \/ \E w \in OversizeWriters : CopyPixels(w)
    \/ \E w \in OversizeWriters : StoreLastUpdateTime(w)
    \/ \E w \in OversizeWriters : PostReadReady(w)
    \/ ConsumerWait
    \/ ConsumerPost

SpecOversize == Init /\ [][NextOversize]_vars

\* the pixel bytes of img fit the payload of a slot
FitsSlot(img) == RequiredSizeOf(img) <= obj.SingleSlotSize - SlotHeaderSize

\* C5: every accepted call has Width * Height * 3 <= SingleSlotSize - HeaderSize,
\* and no call stores pixel bytes that do not fit its slot.
C5_AcceptedWriteFits ==
    /\ lastAccepted.Slot >= 0 => FitsSlot(lastAccepted.Image)
    /\ \A w \in Writers : pc[w] \in { "stamp", "post" } => FitsSlot(call[w])

\* ------------------------------------------------- progress of a call (C9)

\* the frame the writers send while progress is checked
LiveImages == { ImageOf(1, 1, fr) : fr \in { f \in Frames : f.Timestamp = 1000 } }

\* a step of writer w inside a WriteImage call
InCall(w) ==
    \/ AcquirePermit(w)
    \/ PermitTimeout(w)
    \/ LoadWriteIndex(w)
    \/ CompareExchange(w)
    \/ WriteSubHeader(w)
    \/ CopyPixels(w)
    \/ StoreLastUpdateTime(w)
    \/ PostReadReady(w)

\* writers that call again and again, and a consumer that may stop at any time
NextLive ==
    \/ \E mw \in MaxWidths, mh \in MaxHeights : FirstInitialize(MaxNumSlots, mw, mh)
    \/ \E w \in Writers, img \in LiveImages : WriteImage(w, img)
    \/ \E w \in Writers : AcquirePermit(w)
    \/ \E w \in Writers : PermitTimeout(w)
    \/ \E w \in Writers : LoadWriteIndex(w)
    \/ \E w \in Writers : CompareExchange(w)
    \/ \E w \in Writers : WriteSubHeader(w)
    \/ \E w \in Writers : CopyPixels(w)
    \/ \E w \in Writers : StoreLastUpdateTime(w)
    \/ \E w \in Writers : PostReadReady(w)
    \/ ConsumerWait
    \/ ConsumerPost

\* every writer thread that is inside a call is scheduled again; nothing makes a
\* thread call WriteImage again, and nothing makes the consumer run
SpecLive ==
    Init /\ [][NextLive]_vars /\ \A w \in Writers : WF_vars(InCall(w))

\* the compare-and-swap of writer w succeeds
Claims(w) == pc[w] = "cas" /\ pc'[w] # "cas" /\ pc'[w] # "load"

\* the compare-and-swap of writer w fails
Retries(w) == pc[w] = "cas" /\ pc'[w] = "load"

\* C9 as stated: every WriteImage call eventually returns.
C9_EveryCallReturns ==
    \A w \in Writers : (pc[w] # "idle") ~> (pc[w] = "idle")

\* C9, amended: a writer's compare-and-swap fails only after another writer's
\* has succeeded, and a call returns unless the claims of other writers keep
\* succeeding for ever.
C9_LockFreeProgress ==
    /\ [][\A w \in Writers : Retries(w) => casLost[w]]_vars
    /\ \A w \in Writers :
          \/ []<>(pc[w] = "idle")
          \/ []<><<\E v \in Writers \ {w} : Claims(v)>>_vars

\* C9's case: a writer lost its compare-and-swap to another writer and retries
C9_Witness ==
    \E w \in Writers : pc[w] = "load" /\ casLost[w]

\* ----------------------------------------- Initialize that fails, Shutdown (C10)

\* one writer thread is enough beside the lifecycle calls
LifecycleWriters == {1}

\* Initialize failing at any of its steps, Shutdown, and the write path between
NextLifecycle ==
    \/ \E n \in 0..MaxNumSlots, mw \in MaxWidths, mh \in MaxHeights, f \in FailPoints :
          Initialize(n, mw, mh, f)
    \/ Shutdown
    \/ \E w \in LifecycleWriters, img \in Images : WriteImage(w, img)
    \/ \E w \in LifecycleWriters : AcquirePermit(w)
    \/ \E w \in LifecycleWriters : PermitTimeout(w)
    \/ \E w \in LifecycleWriters : LoadWriteIndex(w)
    \/ \E w \in LifecycleWriters : CompareExchange(w)
    \/ \E w \in LifecycleWriters : WriteSubHeader(w)
    \/ \E w \in LifecycleWriters : CopyPixels(w)
    \/ \E w \in LifecycleWriters : StoreLastUpdateTime(w)
    \/ \E w \in LifecycleWriters : PostReadReady(w)
    \/ ConsumerWait
    \/ ConsumerPost

SpecLifecycle == Init /\ [][NextLifecycle]_vars

\* no handle of the object is recorded as held
NoHandleHeld ==
    /\ obj.SharedMemoryFD = -1
    /\ obj.SharedMemoryPtr = MAP_FAILED
    /\ obj.WriteSemaphore = SEM_FAILED
    /\ obj.ReadSemaphore = SEM_FAILED

\* C10: after an Initialize that failed, IsInitialized() is false, everything
\* that was acquired is released, no handle is recorded as held, and no release
\* is ever issued on something that is not held.
C10_FailedInitializeHoldsNothing ==
    /\ initResult = "false"
          => (~obj.bIsInitialized /\ os = NoResources /\ NoHandleHeld)
    /\ faults = {}

\* C11: no close, unmap or unlink is ever issued on something that is not held,
\* and once Shutdown has left every handle at its unheld value nothing is still
\* open, mapped or linked: each acquired resource is released exactly once.
C11_ReleasedExactlyOnce ==
    /\ faults = {}
    /\ (NoHandleHeld /\ ~obj.bIsInitialized) => os = NoResources

\* the slot count and slot size, the segment and the semaphore counts
TransportState == << obj, os, faults, hdr, slotMem, writePermits, readReady >>

\* a call of Initialize, with any arguments and any failure the system has ready
InitializeCalled ==
    \E n \in 0..MaxNumSlots, mw \in MaxWidths, mh \in MaxHeights, f \in FailPoints :
        Initialize(n, mw, mh, f)

\* C12: Initialize called on an initialized transport returns true and leaves
\* the object, the resources, the header, the slots and both semaphore counts
\* as they were, whatever its arguments.
C12_ReinitializeChangesNothing ==
    [][(obj.bIsInitialized /\ InitializeCalled)
          => (initResult' = "true" /\ UNCHANGED TransportState)]_vars

\* C12's case: Initialize found the transport initialized while a frame was
\* accepted, a permit is out and the write index has moved
C12_Witness ==
    /\ reinitialized
    /\ obj.bIsInitialized
    /\ accepted >= 1
    /\ hdr.WriteIndex >= 1
    /\ hdr.LastUpdateTime > 0

\* writer w enters WriteImage
WriteImageCalled(w) == \E img \in Images : WriteImage(w, img)

\* C13: a WriteImage call made while the transport is not initialized (before
\* the first successful Initialize, after a failed one, after Shutdown) returns
\* false at once: it does not go on to the semaphore wait, and the header, the
\* slots and both semaphore counts are as before.
C13_RefusedWhenNotInitialized ==
    [][\A w \in Writers :
          (~obj.bIsInitialized /\ WriteImageCalled(w))
             => /\ pc'[w] = "idle"
                /\ ret'[w] = "not_initialized"
                /\ UNCHANGED << hdr, slotMem, writePermits, readReady >>]_vars

\* C13's case: a call was refused after the Shutdown of a transport that had
\* been initialized with success (its Header pointer is still set)
C13_Witness ==
    /\ refusedSince
    /\ ~obj.bIsInitialized
    /\ initResult = "true"
    /\ obj.Header # nullptr
    /\ \E w \in Writers : ret[w] = "not_initialized"

\* ------------------------------------------------------- WriteImages (C14)

\* the FSharedImageSlot objects a batch points at: a frame that can be written,
\* one of zero width, and one whose DataSize is short of Width * Height * 3
BatchElements ==
    { [ Width |-> 1, Height |-> 1, Timestamp |-> 1000, ImageType |-> 0,
        DataSize |-> 3, PixelData |-> << 255, 255, 255 >> ],
      [ Width |-> 0, Height |-> 1, Timestamp |-> 2000, ImageType |-> 5,
        DataSize |-> 0, PixelData |-> << 0 >> ],
      [ Width |-> 1, Height |-> 1, Timestamp |-> 3000, ImageType |-> 1,
        DataSize |-> 2, PixelData |-> << 9, 9 >> ] }

\* the Images arrays WriteImages is called with
Batches == UNION { [ 1..n -> BatchElements ] : n \in 0..MaxBatch }

\* PixelData.Append(Image->PixelData, Image->DataSize), and the arguments of
\* WriteImage(Image->Width, Image->Height, Image->Timestamp, Image->ImageType, PixelData)
ElementArgs(e) ==
    [ Width |-> e.Width, Height |-> e.Height, Timestamp |-> e.Timestamp,
      ImageType |-> e.ImageType, PixelData |-> SubSeq(e.PixelData, 1, e.DataSize) ]

\* mutant of Accumulate: bAllSuccess = in place of bAllSuccess &=
Accumulate_LastOnly(all, r) == r

\* bAllSuccess &= WriteImage(...)
Accumulate(all, r) == all /\ r

\* WriteImages(Images) is entered: bool bAllSuccess = true
WriteImages(w, b) ==
    /\ ~crashed
    /\ pc[w] = "idle"
    /\ bpc[w] = "idle"
    /\ bpc' = [ bpc EXCEPT ![w] = "loop" ]
    /\ Batch' = [ Batch EXCEPT ![w] = b ]
    /\ batchIdx' = [ batchIdx EXCEPT ![w] = 1 ]
    /\ bAllSuccess' = [ bAllSuccess EXCEPT ![w] = TRUE ]
    /\ batchRet' = [ batchRet EXCEPT ![w] = "none" ]
    /\ results' = [ results EXCEPT ![w] = << >> ]
    /\ UNCHANGED << objVars, shmVars, semVars, writerVars, consumerVars, observerVars,
                    crashed >>
    /\ UNCHANGED restVars

\* the loop body up to the call: WriteImage is entered for the element the loop is at
BatchCall(w) ==
    /\ bpc[w] = "loop"
    /\ batchIdx[w] <= Len(Batch[w])
    /\ WriteImageEnter(w, ElementArgs(Batch[w][batchIdx[w]]))
    /\ bpc' = [ bpc EXCEPT ![w] = "called" ]
    /\ results' = [ results EXCEPT ![w] =
                      Append(@, [ Image |-> ElementArgs(Batch[w][batchIdx[w]]),
                                  Ret |-> "none" ]) ]
    /\ UNCHANGED << Batch, batchIdx, bAllSuccess, batchRet >>

\* the call has returned: bAllSuccess &= its result, and the loop moves on
BatchCollect(w) ==
    /\ ~crashed
    /\ bpc[w] = "called"
    /\ pc[w] = "idle"
    /\ bAllSuccess' = [ bAllSuccess EXCEPT ![w] = Accumulate(@, ret[w] = "true") ]
    /\ results' = [ results EXCEPT ![w][Len(results[w])].Ret = ret[w] ]
    /\ batchIdx' = [ batchIdx EXCEPT ![w] = @ + 1 ]
    /\ bpc' = [ bpc EXCEPT ![w] = "loop" ]
    /\ UNCHANGED << Batch, batchRet, objVars, shmVars, semVars, writerVars,
                    consumerVars, observerVars, crashed >>
    /\ UNCHANGED restVars

\* the loop is over: return bAllSuccess
BatchReturn(w) ==
    /\ ~crashed
    /\ bpc[w] = "loop"
    /\ batchIdx[w] > Len(Batch[w])
    /\ batchRet' = [ batchRet EXCEPT ![w] = IF bAllSuccess[w] THEN "true" ELSE "false" ]
    /\ bpc' = [ bpc EXCEPT ![w] = "idle" ]
    /\ UNCHANGED << Batch, batchIdx, bAllSuccess, results, objVars, shmVars, semVars,
                    writerVars, consumerVars, observerVars, crashed >>
    /\ UNCHANGED restVars

\* the thread that calls WriteImages
BatchWriters == {1}

\* one thread writing batches, and the consumer
NextBatch ==
    \/ \E n \in 1..MaxNumSlots, mw \in MaxWidths, mh \in MaxHeights :
          FirstInitialize(n, mw, mh)
    \/ \E w \in BatchWriters, b \in Batches : WriteImages(w, b)
    \/ \E w \in BatchWriters : BatchCall(w)
    \/ \E w \in BatchWriters : BatchCollect(w)
    \/ \E w \in BatchWriters : BatchReturn(w)
    \/ \E w \in BatchWriters : AcquirePermit(w)
    \/ \E w \in BatchWriters : PermitTimeout(w)
    \/ \E w \in BatchWriters : LoadWriteIndex(w)
    \/ \E w \in BatchWriters : CompareExchange(w)
    \/ \E w \in BatchWriters : WriteSubHeader(w)
    \/ \E w \in BatchWriters : CopyPixels(w)
    \/ \E w \in BatchWriters : StoreLastUpdateTime(w)
    \/ \E w \in BatchWriters : PostReadReady(w)
    \/ ConsumerWait
    \/ ConsumerPost

SpecBatch == Init /\ [][NextBatch]_vars

\* a step of WriteImages' own loop (not of the WriteImage call it makes)
BatchLoopStep(w) == BatchCollect(w) \/ BatchReturn(w)

\* C14: when WriteImages has returned, WriteImage was called once for every
\* element, in the order of the batch and with that element's fields, the
\* failed elements included; the result is true exactly when every one of those
\* calls returned true; and the loop's own steps, the return included, leave the
\* header, the slots and the semaphore counts as the calls left them.
C14_BatchIsConjunction ==
    /\ [](\A w \in Writers :
            (bpc[w] = "idle" /\ batchRet[w] # "none")
               => /\ Len(results[w]) = Len(Batch[w])
                  /\ \A i \in 1..Len(Batch[w]) :
                        /\ results[w][i].Image = ElementArgs(Batch[w][i])
                        /\ results[w][i].Ret # "none"
                  /\ (batchRet[w] = "true")
                        <=> (\A i \in 1..Len(Batch[w]) : results[w][i].Ret = "true"))
    /\ [][\A w \in Writers :
            BatchLoopStep(w) => UNCHANGED << hdr, slotMem, writePermits, readReady >>]_vars

\* C14's case: a batch of an accepted frame, a refused one and another accepted
\* one has returned false, and both accepted frames are in the ring
C14_Witness ==
    \E w \in Writers :
        /\ bpc[w] = "idle" /\ batchRet[w] = "false"
        /\ Len(results[w]) = 3
        /\ results[w][1].Ret = "true"
        /\ results[w][2].Ret = "invalid"
        /\ results[w][3].Ret = "true"
        /\ claimCount = 2
        /\ readReady + (IF cpc = "reading" THEN 1 ELSE 0) >= 1

\* --------------------------------- FImagePackingAsyncTask::DoWork (C15, C16)

\* one entry of the task: Params[i] (pixels_as_float, compress) and Results[i]
\* (width, height, the source bitmaps, the two output arrays); resized observes
\* the element count SetNumUninitialized was called with (-1: not called), and
\* overran that the loop stored past the end of the array
PackEntry(asFloat, compress, width, height, bmp, bmpFloat) ==
    [ pixels_as_float |-> asFloat, compress |-> compress,
      width |-> width, height |-> height, bmp |-> bmp, bmp_float |-> bmpFloat,
      image_data_uint8 |-> << >>, image_data_float |-> << >>,
      resized |-> -1, overran |-> FALSE ]

\* an FColor and an FFloat16Color (its R channel)
Color(r, g, b) == [ R |-> r, G |-> g, B |-> b, A |-> 255 ]
FloatColor(r) == [ R |-> r ]

\* the entries a task is built from: every entry with non-zero dimensions has
\* width * height source pixels; an entry with a zero dimension has no source
\* pixel or, malformed, one
PackEntries ==
    { PackEntry(FALSE, FALSE, 1, 1, << Color(10, 20, 30) >>, << >>),
      PackEntry(FALSE, FALSE, 2, 1, << Color(1, 2, 3), Color(4, 5, 6) >>, << >>),
      PackEntry(FALSE, FALSE, 0, 1, << Color(7, 8, 9) >>, << >>),
      PackEntry(FALSE, TRUE, 1, 1, << Color(10, 20, 30) >>, << >>),
      PackEntry(TRUE, FALSE, 1, 1, << >>, << FloatColor(7) >>),
      PackEntry(TRUE, FALSE, 0, 1, << >>, << >>),
      PackEntry(TRUE, FALSE, 1, 0, << >>, << FloatColor(7) >>) }

\* the batches a task is constructed with (ReqSize = the length)
TaskBatches == UNION { [ 1..n -> PackEntries ] : n \in 1..MaxTask }

\* what the loop "for (item : bmp) { *ptr++ = ...; }" leaves in an array of n
\* elements when it stores the sequence written from the start of the array:
\* elements the loop does not reach keep the value they had (uninitialized)
Stored(n, written, before) ==
    [ k \in 1..n |-> IF k <= Len(written) THEN written[k] ELSE before ]

\* *ptr++ = item.B; *ptr++ = item.G; *ptr++ = item.R; for every item of bmp
RECURSIVE PackedBytes(_)
PackedBytes(bmp) ==
    IF bmp = << >> THEN << >>
    ELSE << Head(bmp).B, Head(bmp).G, Head(bmp).R >> \o PackedBytes(Tail(bmp))

\* *ptr++ = item.R.GetFloat(); for every item of bmp_float
PackedFloats(bmpFloat) == [ k \in 1..Len(bmpFloat) |-> bmpFloat[k].R ]

\* UAirBlueprintLib::CompressImageArray: the PNG it leaves in the output array
\* (here the PNG signature stands for the compressed image)
CompressImageArray(width, height, bmp) == << 137, 80, 78, 71 >>

\* the loop body stores past the end of the output array it has just sized
StoresPastArray(e) ==
    IF ~e.pixels_as_float
    THEN e.width # 0 /\ e.height # 0 /\ ~e.compress
            /\ Len(e.bmp) * 3 > e.width * e.height * 3
    ELSE Len(e.bmp_float) > e.width * e.height

\* the loop body of DoWork on the entry e: the entry afterwards
PackedEntry(e) ==
    IF ~e.pixels_as_float
    THEN IF e.width # 0 /\ e.height # 0
         THEN [ e EXCEPT
                  !.resized = e.width * e.height * 3,
                  !.overran = StoresPastArray(e),
                  !.image_data_uint8 =
                      IF e.compress
                      THEN CompressImageArray(e.width, e.height, e.bmp)
                      ELSE Stored(e.width * e.height * 3, PackedBytes(e.bmp), 0) ]
         ELSE e
    ELSE [ e EXCEPT
             !.resized = e.width * e.height,
             !.overran = StoresPastArray(e),
             !.image_data_float = Stored(e.width * e.height, PackedFloats(e.bmp_float), 0) ]

\* one iteration of DoWork's loop; a store past the end of an array either
\* kills the process or goes unnoticed
DoWork ==
    /\ ~task.crashed
    /\ task.i <= Len(task.Entries)
    /\ \E dies \in (IF StoresPastArray(task.Entries[task.i]) THEN BOOLEAN ELSE {FALSE}) :
          task' = [ task EXCEPT !.Entries[task.i] = PackedEntry(@),
                                !.i = @ + 1,
                                !.crashed = dies ]
    /\ UNCHANGED << transportVars, geom, spc >>

\* a task constructed with any of the batches
InitPacking ==
    /\ InitTransport
    /\ geom = NoGeometry
    /\ spc = "idle"
    /\ task \in { [ Entries |-> es, i |-> 1, crashed |-> FALSE ] : es \in TaskBatches }

NextPacking == DoWork

SpecPacking == InitPacking /\ [][NextPacking]_vars

\* the entries DoWork's loop has been through
Processed == 1..(task.i - 1)

\* C15: every processed entry that is neither floating-point nor compressed and
\* has non-zero width and height has an output array of width * height * 3
\* bytes holding, for each source pixel, its R, its G and its B in that order.
C15_PackedAsRGB ==
    \A k \in Processed :
        LET e == task.Entries[k]
        IN  (~e.pixels_as_float /\ ~e.compress /\ e.width # 0 /\ e.height # 0)
               => /\ Len(e.image_data_uint8) = e.width * e.height * 3
                  /\ \A j \in 1..Len(e.bmp) :
                        /\ e.image_data_uint8[(3 * (j - 1)) + 1] = e.bmp[j].R
                        /\ e.image_data_uint8[(3 * (j - 1)) + 2] = e.bmp[j].G
                        /\ e.image_data_uint8[(3 * (j - 1)) + 3] = e.bmp[j].B

\* C16: for a processed entry whose width or height is zero, 8-bit or
\* floating-point, no output array was given elements and nothing was stored
\* into or past one, and the loop was never cut short, so every other entry is
\* processed.
C16_ZeroDimensionSkipped ==
    /\ ~task.crashed
    /\ \A k \in Processed :
          LET e == task.Entries[k]
          IN  (e.width = 0 \/ e.height = 0)
                 => /\ e.resized <= 0
                    /\ ~e.overran
                    /\ e.image_data_uint8 = << >> /\ e.image_data_float = << >>

\* ------------------------------------------ the header's fields (C17, C18)

\* C17: while a transport with MaxSlots >= 1 is initialized, WriteIndex is in
\* 0 .. MaxSlots - 1; WriteIndex moves only in a successful compare-and-swap
\* of a writer, every such step takes it from v to (v + 1) % MaxSlots, and a
\* call makes one such step before it is accepted.
C17_WriteIndexInRange ==
    /\ []((obj.bIsInitialized /\ obj.MaxSlots >= 1)
            => (hdr.WriteIndex >= 0 /\ hdr.WriteIndex < obj.MaxSlots))
    /\ [][(obj.bIsInitialized /\ obj.bIsInitialized' /\ obj.MaxSlots >= 1)
            => /\ (hdr'.WriteIndex # hdr.WriteIndex => \E w \in Writers : Claims(w))
               /\ \A w \in Writers :
                     /\ Claims(w) => hdr'.WriteIndex = (hdr.WriteIndex + 1) % obj.MaxSlots
                     /\ (pc[w] \in InSlot \/ pc'[w] \notin InSlot) => ~Claims(w)]_vars

\* C17's case: with two slots, two writes were accepted and WriteIndex has gone
\* 0, 1, 0, 1, while a third call holds a slot and a fourth waits for a permit
C17_Witness ==
    /\ obj.bIsInitialized
    /\ obj.MaxSlots = 2
    /\ accepted = 2
    /\ claimCount = 3
    /\ hdr.WriteIndex = 1
    /\ \E w, v \in Writers : pc[w] \in InSlot /\ pc[v] = "wait"

\* C18: whenever no WriteImage call is in progress on an initialized transport,
\* LastUpdateTime is the Timestamp argument of the accepted write that claimed
\* its slot last, and 0 if no write was accepted since Initialize.
C18_LastUpdateIsLatestClaim ==
    (obj.bIsInitialized /\ obj.MaxSlots >= 1 /\ \A w \in Writers : pc[w] = "idle")
        => hdr.LastUpdateTime = lastClaimTime

\* ------------------------------------- the sizes in 32-bit arithmetic (C19)

\* Numbers beyond the checker's integers are kept as NumLimbs digits in base
\* 4096, lowest digit first: 72 bits, enough for a product of two uint32.
NumLimbs == 6
Limb == PageSize

\* the digits of a small natural n
BigOf(n) ==
    [ k \in 1..NumLimbs |->
        CASE k = 1 -> n % Limb
          [] k = 2 -> (n \div Limb) % Limb
          [] k = 3 -> (n \div Limb) \div Limb
          [] OTHER -> 0 ]

\* the carry into digit k of the digit sums ds
RECURSIVE CarryInto(_, _)
CarryInto(ds, k) ==
    IF k = 1 THEN 0 ELSE (ds[k - 1] + CarryInto(ds, k - 1)) \div Limb

\* digit sums brought back to digits (what does not fit NumLimbs digits is dropped)
Normalize(ds) == [ k \in 1..NumLimbs |-> (ds[k] + CarryInto(ds, k)) % Limb ]

BigAdd(a, b) == Normalize([ k \in 1..NumLimbs |-> a[k] + b[k] ])

\* the sum of a[i] * b[k + 1 - i] over i in 1..n
RECURSIVE Convolve(_, _, _, _)
Convolve(a, b, k, n) ==
    IF n = 0 THEN 0 ELSE (a[n] * b[(k + 1) - n]) + Convolve(a, b, k, n - 1)

\* a * b, for a and b below 2^36
BigMul(a, b) == Normalize([ k \in 1..NumLimbs |-> Convolve(a, b, k, Min(k, 3)) ])

\* a < b and a <= b
BigLess(a, b) ==
    \E k \in 1..NumLimbs : a[k] < b[k] /\ \A j \in (k + 1)..NumLimbs : a[j] = b[j]
BigLeq(a, b) == a = b \/ BigLess(a, b)

\* a value stored in a uint32: its low 32 bits (12 + 12 + 8)
U32(a) ==
    [ k \in 1..NumLimbs |->
        CASE k <= 2 -> a[k]
          [] k = 3  -> a[k] % 256
          [] OTHER  -> 0 ]

\* x & ~4095
ClearLow12(a) == [ a EXCEPT ![1] = 0 ]

\* SingleSlotSize = HeaderSize + (MaxWidth * MaxHeight * 3), then
\* (SingleSlotSize + 4095) & ~4095, every operation in uint32
SingleSlotSize32(MaxWidth, MaxHeight) ==
    LET pixels == U32(BigMul(BigOf(MaxWidth), BigOf(MaxHeight)))
        bytes  == U32(BigMul(pixels, BigOf(3)))
        size   == U32(BigAdd(BigOf(SlotHeaderSize), bytes))
    IN  ClearLow12(U32(BigAdd(size, BigOf(PageSize - 1))))

\* TotalSize = sizeof(FSharedMemoryHeader) + (SingleSlotSize * MaxSlots), the
\* product in uint32 and the sum in size_t, then the padding of the header to 4096
TotalSize64(NumSlots, slotSize) ==
    BigAdd(BigOf(PageSize), U32(BigMul(slotSize, BigOf(NumSlots))))

\* GetSlot: the byte offset of slot Index in the segment,
\* 4096 + (Index * SingleSlotSize), the product in uint32
SlotOffset32(Index, slotSize) ==
    BigAdd(BigOf(PageSize), U32(BigMul(BigOf(Index), slotSize)))

\* the arguments Initialize is called with: small rings and frames, full-HD
\* frames, many slots, and dimensions whose product leaves 32 bits
GeomSlots == { 1, 2, 3, 700, 1048576 }
GeomWidths == { 1, 64, 1920, 32768, 65536 }
GeomHeights == { 1, 64, 1080, 21846, 65536 }

\* the slots looked at: the first ones and the last one
GeomIndices(NumSlots) == { i \in { 0, 1, 2, NumSlots - 1 } : i < NumSlots }

\* Initialize's size computation
ComputeSizes ==
    /\ ~geom.done
    /\ geom' = [ geom EXCEPT
                   !.done = TRUE,
                   !.SingleSlotSize = SingleSlotSize32(geom.MaxWidth, geom.MaxHeight),
                   !.TotalSize = TotalSize64(geom.NumSlots,
                                             SingleSlotSize32(geom.MaxWidth, geom.MaxHeight)) ]
    /\ UNCHANGED << transportVars, task, spc >>

\* GetSlot(Index) for an index below MaxSlots
LocateSlot(Index) ==
    /\ geom.done
    /\ ~GetSlotIsNull(Index, geom.NumSlots)
    /\ geom' = [ geom EXCEPT !.Index = Index,
                             !.Offset = SlotOffset32(Index, geom.SingleSlotSize) ]
    /\ UNCHANGED << transportVars, task, spc >>

InitGeometry ==
    /\ InitTransport
    /\ task = NoTask
    /\ spc = "idle"
    /\ geom \in { [ NoGeometry EXCEPT !.NumSlots = n, !.MaxWidth = w, !.MaxHeight = h ] :
                    n \in GeomSlots, w \in GeomWidths, h \in GeomHeights }

NextGeometry ==
    \/ ComputeSizes
    \/ \E i \in GeomIndices(geom.NumSlots) : LocateSlot(i)

SpecGeometry == InitGeometry /\ [][NextGeometry]_vars

\* HeaderSize + MaxWidth * MaxHeight * 3, and 4096 + NumSlots * slotSize, as
\* numbers (no width)
NeededBytes(MaxWidth, MaxHeight) ==
    BigAdd(BigOf(SlotHeaderSize), BigMul(BigMul(BigOf(MaxWidth), BigOf(MaxHeight)), BigOf(3)))
SegmentBytes(NumSlots, slotSize) ==
    BigAdd(BigOf(PageSize), BigMul(BigOf(NumSlots), slotSize))

\* C19: after Initialize's computation, SingleSlotSize is the smallest multiple
\* of 4096 that is >= HeaderSize + MaxWidth * MaxHeight * 3, TotalSize is
\* 4096 + NumSlots * SingleSlotSize, and a slot GetSlot returns starts at
\* 4096 + Index * SingleSlotSize, behind the header page, and ends inside the
\* segment.
C19_SlotsInsideSegment ==
    geom.done
        => /\ geom.SingleSlotSize[1] = 0
           /\ BigLeq(NeededBytes(geom.MaxWidth, geom.MaxHeight), geom.SingleSlotSize)
           /\ BigLess(geom.SingleSlotSize,
                      BigAdd(NeededBytes(geom.MaxWidth, geom.MaxHeight), BigOf(PageSize)))
           /\ geom.TotalSize = SegmentBytes(geom.NumSlots, geom.SingleSlotSize)
           /\ geom.Index >= 0
                 => /\ geom.Offset = SegmentBytes(geom.Index, geom.SingleSlotSize)
                    /\ BigLeq(BigOf(PageSize), geom.Offset)
                    /\ BigLeq(BigAdd(geom.Offset, geom.SingleSlotSize), geom.TotalSize)

\* ------------------------------ Shutdown beside WriteImage calls (C20)

\* Shutdown taken statement by statement, so that writer threads run between
\* its statements.  st is the statement reached: "write_sem" (cpp 190-196),
\* "read_sem" (198-204), "unmap" (206), "fd" (208-213), "flag" (215).
ShutdownStatement(st, o, r) ==
    CASE st = "write_sem" ->
            IF o.WriteSemaphore # SEM_FAILED
            THEN [ o |-> [ o EXCEPT !.WriteSemaphore = SEM_FAILED ],
                   r |-> Release(Release(r, "writeSemOpen"), "writeSemLinked") ]
            ELSE [ o |-> o, r |-> r ]
      [] st = "read_sem" ->
            IF o.ReadSemaphore # SEM_FAILED
            THEN [ o |-> [ o EXCEPT !.ReadSemaphore = SEM_FAILED ],
                   r |-> Release(Release(r, "readSemOpen"), "readSemLinked") ]
            ELSE [ o |-> o, r |-> r ]
      [] st = "unmap" -> UnmapSharedMemory(o, r)
      [] st = "fd" ->
            IF o.SharedMemoryFD >= 0
            THEN [ o |-> [ o EXCEPT !.SharedMemoryFD = -1 ],
                   r |-> Release(Release(r, "fdOpen"), "shmLinked") ]
            ELSE [ o |-> o, r |-> r ]
      [] OTHER -> [ o |-> [ o EXCEPT !.bIsInitialized = FALSE ], r |-> r ]

\* the statement after st ("idle": Shutdown has returned)
StatementAfter(st) ==
    CASE st = "write_sem" -> "read_sem"
      [] st = "read_sem"  -> "unmap"
      [] st = "unmap"     -> "fd"
      [] st = "fd"        -> "flag"
      [] OTHER            -> "idle"

\* one statement of a Shutdown that runs on a thread of its own; the call is
\* entered from spc = "idle" with its first statement
ShutdownStep ==
    /\ ~crashed
    /\ LET st == IF spc = "idle" THEN "write_sem" ELSE spc
           e  == ShutdownStatement(st, obj, [ os |-> os, faults |-> faults ])
       IN  /\ obj' = e.o
           /\ os' = e.r.os
           /\ faults' = e.r.faults
           /\ spc' = StatementAfter(st)
           /\ writePermits' = IF st = "write_sem" THEN 0 ELSE writePermits
           /\ readReady' = IF st = "read_sem" THEN 0 ELSE readReady
           /\ IF st = "unmap"
              THEN hdr' = NoHeader /\ slotMem' = NoSlots /\ unread' = NoSlots
              ELSE UNCHANGED << hdr, slotMem, unread >>
           /\ IF st = "flag"
              THEN /\ ResetObservers
                   /\ reinitialized' = FALSE
                   /\ refusedSince' = FALSE
              ELSE UNCHANGED << claimCount, lastClaimed, lastClaimTime, accepted, posted,
                                lastAccepted, reinitialized, refusedSince >>
    /\ UNCHANGED << initResult, writerVars, consumerVars, touched, casLost, crashed,
                    batchVars, task, geom >>

\* the next statement of writer w's call works on a semaphore that is closed
\* or on a segment that is unmapped
UsesReleased(w) ==
    \/ pc[w] = "wait" /\ ~os.writeSemOpen
    \/ pc[w] \in { "load", "cas", "header", "copy", "stamp" } /\ ~os.mapped
    \/ pc[w] = "post" /\ ~os.readSemOpen

\* writer w executes that statement: the process dies, or the call goes on in
\* some way and comes back
UseAfterRelease(w) ==
    /\ ~crashed
    /\ UsesReleased(w)
    /\ crashed' \in BOOLEAN
    /\ Return(w, "use_after_release")
    /\ UNCHANGED << objVars, shmVars, semVars, consumerVars, observerVars, batchVars,
                    restVars >>

\* the threads that write while Shutdown runs
RaceWriters == Writers

\* Initialize, writers, and a Shutdown that can start and advance at any time
NextRace ==
    \/ \E n \in 1..MaxNumSlots, mw \in MaxWidths, mh \in MaxHeights :
          spc = "idle" /\ FirstInitialize(n, mw, mh)
    \/ ShutdownStep
    \/ \E w \in RaceWriters, img \in LiveImages : WriteImage(w, img)
    \/ \E w \in RaceWriters : ~UsesReleased(w) /\ AcquirePermit(w)
    \/ \E w \in RaceWriters : ~UsesReleased(w) /\ PermitTimeout(w)
    \/ \E w \in RaceWriters : ~UsesReleased(w) /\ LoadWriteIndex(w)
    \/ \E w \in RaceWriters : ~UsesReleased(w) /\ CompareExchange(w)
    \/ \E w \in RaceWriters : ~UsesReleased(w) /\ WriteSubHeader(w)
    \/ \E w \in RaceWriters : ~UsesReleased(w) /\ CopyPixels(w)
    \/ \E w \in RaceWriters : ~UsesReleased(w) /\ StoreLastUpdateTime(w)
    \/ \E w \in RaceWriters : ~UsesReleased(w) /\ PostReadReady(w)
    \/ \E w \in RaceWriters : UseAfterRelease(w)

SpecRace == Init /\ [][NextRace]_vars

\* C20: no WriteImage call waits on or posts a semaphore that Shutdown has
\* closed, and none reads or writes the header or a slot that Shutdown has
\* unmapped.
C20_NoUseAfterShutdown ==
    /\ ~crashed
    /\ \A w \in Writers : ret[w] # "use_after_release"

=============================================================================
